---- MODULE Spec2Model ----
(***************************************************************************)
(* TransNet notebook (src/ipynb/transNet.ipynb): the computation graph of  *)
(* cells 4-17 as a dependency graph with the numeric operators the losses  *)
(* and the Hits@k metric are built from, and the training / evaluation     *)
(* loop of cell 19 as a state machine.                                     *)
(*                                                                         *)
(* Tensors hold integers (exact values on a small grid); a value that the  *)
(* code halves is kept as a fraction <<numerator, denominator>>.  A        *)
(* trainable variable of the session is represented by the number of       *)
(* optimizer updates applied to it since sess.run(init).                   *)
(***************************************************************************)
EXTENDS Integers, Sequences, FiniteSets, TLC

\* ---------------------------------------------------------------- bounds
MaxWarmUp == 1
MaxEpochs == 3
MaxDisplayStep == 2
MaxExamples == 2
MaxTestExamples == 1

\* Batch sizes, label-set sizes and vertex counts of the runs explored.
BatchSizes == {1, 2}
TagTotals == {5, 10, 11}
EntityTotals == {10}
\* Batch losses (the loss of a batch is decided by real-valued parameters).
Losses == {0, 1}

\* ------------------------------------------------- parameters (cell 3)
gamma == 1
beta == 50
hits_k == <<1, 5, 10>>

VARIABLES
  \* configuration: cell 3 and the data set of cell 1
  warm_up_epochs, epochs, display_step, batch_size, eval_batch_size,
  num_examples, test_num_examples, tag_total, entity_total, test_edges,
  \* cell 19
  pc, total_batch, test_total_batch, epoch, i, cur_loss, sum_loss,
  cur_hits, cur_sum, hits_, all_count, r,
  \* the session: update count of every trainable variable
  session,
  \* history: the last sess.run call, steps and epochs completed so far,
  \* the joint epochs an evaluation round followed, and for the round in
  \* progress the true labels ranked in the top k and the true labels
  last_run, warm_steps, joint_steps, warm_epochs_done, joint_epochs_done,
  evaluated, ranked, labelled,
  \* one evaluation of the loss tensors of cells 9 and 11: what is fed and
  \* what is computed
  given, computed

cfgVars == <<warm_up_epochs, epochs, display_step, batch_size, eval_batch_size,
             num_examples, test_num_examples, tag_total, entity_total,
             test_edges>>
lossVars == <<cur_loss, sum_loss>>
evalVars == <<cur_hits, cur_sum, hits_, all_count, r, ranked, labelled>>
numVars == <<given, computed>>
histVars == <<warm_steps, joint_steps, warm_epochs_done, joint_epochs_done,
              evaluated>>
vars == <<cfgVars, pc, total_batch, test_total_batch, epoch, i, lossVars,
          evalVars, session, last_run, histVars, numVars>>

\* ------------------------------------------- the computation graph
Placeholders == {"pos_h", "pos_t", "pos_r", "pos_br",
                 "neg_h", "neg_t", "neg_r", "neg_br"}

TrainableVars == {"int_embeddings", "adv_embeddings",
                  "encoder_w", "decoder_w", "encoder_b", "decoder_b"}

EmbeddingTables == {"int_embeddings", "adv_embeddings"}
AutoencoderParams == {"encoder_w", "decoder_w", "encoder_b", "decoder_b"}

\* The tensors each tensor of the graph is computed from.
Inputs(n) ==
  CASE n = "pos_h_e" -> {"int_embeddings", "pos_h"}
    [] n = "pos_t_e" -> {"adv_embeddings", "pos_t"}
    [] n = "neg_h_e" -> {"int_embeddings", "neg_h"}
    [] n = "neg_t_e" -> {"adv_embeddings", "neg_t"}
    [] n = "pos_r_rep" -> {"pos_r", "encoder_w", "encoder_b"}
    [] n = "pos_r_dec" -> {"pos_r_rep", "decoder_w", "decoder_b"}
    [] n = "neg_r_rep" -> {"neg_r", "encoder_w", "encoder_b"}
    [] n = "neg_r_dec" -> {"neg_r_rep", "decoder_w", "decoder_b"}
    [] n = "relation_ae_l2_loss" ->
         {"encoder_w", "decoder_w", "encoder_b", "decoder_b"}
    [] n = "relation_loss" ->
         {"pos_r_dec", "pos_r", "pos_br", "neg_r_dec", "neg_r", "neg_br"}
    [] n = "relation_pos_r_loss" ->
         {"pos_r_dec", "pos_r", "pos_br", "relation_ae_l2_loss"}
    [] n = "pos" -> {"pos_h_e", "pos_r_rep", "pos_t_e"}
    [] n = "neg" -> {"neg_h_e", "neg_r_rep", "neg_t_e"}
    [] n = "trans_loss" -> {"pos", "neg"}
    [] n = "loss" -> {"trans_loss", "relation_loss", "relation_ae_l2_loss"}
    [] n = "relation_sum" -> {"pos_r"}
    [] n = "pos_r_minus" -> {"pos_t_e", "pos_h_e"}
    [] n = "pos_r_minus_dec" -> {"pos_r_minus", "decoder_w", "decoder_b"}
    [] n = "hits" -> {"pos_r_minus_dec", "pos_r"}
    [] OTHER -> {}

\* Everything a tensor depends on, itself included.
RECURSIVE Deps(_)
Deps(n) == {n} \cup UNION {Deps(m) : m \in Inputs(n)}

\* The two training operations and the loss each one minimizes.
Optimizers == {"relation_optimizer", "optimizer"}

Minimizes(op) ==
  IF op = "relation_optimizer" THEN "relation_pos_r_loss" ELSE "loss"

\* minimize(loss) updates the trainable variables the loss has a gradient for.
UpdatedByAll(op) == TrainableVars

UpdatedBy(op) == TrainableVars \cap Deps(Minimizes(op))

\* What one fetch of sess.run needs computed.
FetchDeps(f) == IF f \in Optimizers THEN Deps(Minimizes(f)) ELSE Deps(f)

\* The placeholders a sess.run of these fetches must be fed.
Needed(fetches) == Placeholders \cap UNION {FetchDeps(f) : f \in fetches}

\* The trainable variables a sess.run of these fetches assigns.
Assigned(fetches) == UNION {UpdatedBy(f) : f \in fetches \cap Optimizers}

\* sess.run succeeds when every placeholder the fetches need is fed.
RunOk(fetches, feed) == Needed(fetches) \subseteq feed

\* The session after a successful sess.run.
AfterRun(fetches) ==
  [v \in TrainableVars |->
     IF v \in Assigned(fetches) THEN session[v] + 1 ELSE session[v]]

\* ------------------------------------------------ tensor helpers
RECURSIVE SumSeq(_)
SumSeq(s) == IF s = <<>> THEN 0 ELSE Head(s) + SumSeq(Tail(s))

\* Sum of a vector indexed 0..n-1.
RECURSIVE SumTo(_, _)
SumTo(f, n) == IF n = 0 THEN 0 ELSE f[n - 1] + SumTo(f, n - 1)

reduce_sum(f) == SumTo(f, Cardinality(DOMAIN f))

\* ------------------------------------------------ Hits@k (cell 17)
\* The entry tf.nn.top_k takes next: the largest value, and among equal
\* values the lowest index.
Best(values, S) ==
  CHOOSE a \in S : \A b \in S :
    values[a] > values[b] \/ (values[a] = values[b] /\ a <= b)

RECURSIVE TopKFrom(_, _, _)
TopKFrom(values, S, k) ==
  IF k = 0 THEN <<>>
  ELSE LET a == Best(values, S)
       IN <<a>> \o TopKFrom(values, S \ {a}, k - 1)

\* tf.nn.top_k(values, k).indices; the graph cannot be built with k larger
\* than the last dimension.
top_k_last(values, k) == SubSeq(TopKFrom(values, DOMAIN values, k), k, k)

top_k(values, k) == TopKFrom(values, DOMAIN values, k)

TopKBuilds(k, depth) == k <= depth

one_hot(indices, depth) ==
  [p \in 1..Len(indices) |->
     [l \in 0..(depth - 1) |-> IF indices[p] = l THEN 1 ELSE 0]]

\* pred of one edge: tf.reduce_sum(tf.one_hot(topk_indices, tag_total), 1)
Pred(score, k, depth) ==
  LET oh == one_hot(top_k(score, k), depth)
  IN [l \in 0..(depth - 1) |-> SumSeq([p \in 1..Len(oh) |-> oh[p][l]])]

\* tf.reduce_sum(tf.multiply(pred, pos_r)) for one edge
EdgeHits(edge, k, depth) ==
  LET pred == Pred(edge.score, k, depth)
  IN reduce_sum([l \in 0..(depth - 1) |-> pred[l] * edge.pos_r[l]])

\* hits: one count per k of hits_k, summed over the edges of the batch
Hits(batch, depth) ==
  [j \in 1..Len(hits_k) |->
     SumSeq([e \in 1..Len(batch) |-> EdgeHits(batch[e], hits_k[j], depth)])]

\* relation_sum = tf.reduce_sum(pos_r)
RelationSumOfEdges(batch) == Len(batch)

RelationSum(batch) ==
  SumSeq([e \in 1..Len(batch) |-> reduce_sum(batch[e].pos_r)])

\* hit / all_count of line 591.  all_count and the hits_ are Python numbers
\* until the first batch is added and numpy scalars afterwards: Python raises
\* on a zero divisor, numpy returns nan or inf.
DivideGuarded(hit, count, numpy) ==
  IF count = 0
  THEN [kind |-> "value", num |-> 0, den |-> 1]
  ELSE [kind |-> "value", num |-> hit, den |-> count]

Divide(hit, count, numpy) ==
  [kind |-> IF count # 0 THEN "value"
            ELSE IF ~numpy THEN "ZeroDivisionError"
            ELSE IF hit = 0 THEN "nan" ELSE "inf",
   num |-> hit, den |-> count]

\* ------------------------------------------------ test data
\* Predicted score vectors: descending, ascending and constant in the label
\* index (the score of an edge is decided by real-valued parameters).
Scores(depth) ==
  { [l \in 0..(depth - 1) |-> depth - l],
    [l \in 0..(depth - 1) |-> l],
    [l \in 0..(depth - 1) |-> 0] }

MultiHot(S, depth) == [l \in 0..(depth - 1) |-> IF l \in S THEN 1 ELSE 0]

\* Label vectors: no label, the first label, the first, fifth and tenth.
LabelVectors(depth) ==
  { MultiHot(S, depth) : S \in {{}, {0}, {0, 4, 9}} }

\* An edge of a test batch: its true labels pos_r and the score vector
\* pos_r_minus_dec predicts for it.
TestEdges(depth) ==
  { [score |-> s, pos_r |-> l] : s \in Scores(depth), l \in LabelVectors(depth) }

\* The test sets of the runs explored: every edge carries the labels
\* {0, 4, 9} and is scored in descending index order, or no edge carries a
\* label.
SmallTestSets(depth) ==
  { {[score |-> [l \in 0..(depth - 1) |-> depth - l],
      pos_r |-> MultiHot(S, depth)]} : S \in {{}, {0, 4, 9}} }

\* next_test_batch(size): size edges of the test set, whose edges are of
\* the kinds test_edges
TestBatches(size) == [1..size -> test_edges]

\* ------------------------------------------------ losses (cells 9, 11)
\* A tensor is a sequence of integers (a vector, or the entries of a matrix
\* row by row); a batch is a sequence of vectors.
Abs(x) == IF x < 0 THEN -x ELSE x
Max(x, y) == IF x >= y THEN x ELSE y

\* Fractions <<numerator, denominator>>, denominator > 0.
AddFrac(a, b) == <<a[1] * b[2] + b[1] * a[2], a[2] * b[2]>>

\* tf.nn.l2_loss(t) = sum(t ** 2) / 2
l2_loss(t) == <<SumSeq([n \in 1..Len(t) |-> t[n] * t[n]]), 2>>

\* relation_ae_l2_loss (lines 259-262)
relation_ae_l2_loss(encoder_w, decoder_w, encoder_b, decoder_b) ==
  AddFrac(AddFrac(AddFrac(l2_loss(encoder_w), l2_loss(decoder_w)),
                  l2_loss(encoder_b)),
          l2_loss(decoder_b))

\* tf.reduce_sum(tf.abs(tf.multiply(dec - s, br))) (lines 264, 265, 267)
AeLossMisplaced(dec, s, br) ==
  SumSeq([b \in 1..Len(dec) |->
            SumSeq([l \in 1..Len(dec[b]) |->
                      Abs(dec[b][l] * br[b][l] - s[b][l])])])

AeLoss(dec, s, br) ==
  SumSeq([b \in 1..Len(dec) |->
            SumSeq([l \in 1..Len(dec[b]) |->
                      Abs((dec[b][l] - s[b][l]) * br[b][l])])])

\* relation_loss (lines 264-265)
relation_loss(pos_r_dec, pos_r, pos_br, neg_r_dec, neg_r, neg_br) ==
  AeLoss(pos_r_dec, pos_r, pos_br) + AeLoss(neg_r_dec, neg_r, neg_br)

\* pos, neg (lines 295, 297):
\* tf.reduce_sum(tf.abs(h_e + r_rep - t_e), 1, keep_dims = True)
Distance(h_e, r_rep, t_e) ==
  [b \in 1..Len(h_e) |->
     SumSeq([j \in 1..Len(h_e[b]) |->
               Abs(h_e[b][j] + r_rep[b][j] - t_e[b][j])])]

\* trans_loss (line 298): tf.reduce_sum(tf.maximum(pos - neg + gamma, 0))
TransLossNoHinge(pos, neg) ==
  SumSeq([b \in 1..Len(pos) |-> pos[b] - neg[b] + gamma])

trans_loss(pos, neg) ==
  SumSeq([b \in 1..Len(pos) |-> Max(pos[b] - neg[b] + gamma, 0)])

\* ------------------------------------------------ lookup (cell 5)
\* Embedding values are integers in units of 1e-7, so that a squared norm is
\* in units of 1e-14 and the default epsilon = 1e-12 of tf.nn.l2_normalize
\* is 100 of them.
epsilon == 100

square_sum(x) == SumSeq([j \in 1..Len(x) |-> x[j] * x[j]])

\* tf.nn.l2_normalize(x, 1) = x * rsqrt(maximum(reduce_sum(square(x), 1),
\* epsilon)), row by row.  A normalized row is kept as the row and the
\* value under the root: it stands for x / sqrt(square_sum).
l2_normalize_skipped(x) ==
  [b \in 1..Len(x) |-> [x |-> x[b], square_sum |-> 1]]

l2_normalize(x) ==
  [b \in 1..Len(x) |->
     [x |-> x[b], square_sum |-> Max(square_sum(x[b]), epsilon)]]

\* tf.nn.embedding_lookup(params, ids): the rows of params at ids.
embedding_lookup(params, ids) == [b \in 1..Len(ids) |-> params[ids[b]]]

\* lookup (lines 150-159)
lookup(pos_head, pos_tail, neg_head, neg_tail, tables) ==
  [pos_h_e |-> l2_normalize(embedding_lookup(tables.int_embeddings, pos_head)),
   pos_t_e |-> l2_normalize(embedding_lookup(tables.adv_embeddings, pos_tail)),
   neg_h_e |-> l2_normalize(embedding_lookup(tables.int_embeddings, neg_head)),
   neg_t_e |-> l2_normalize(embedding_lookup(tables.adv_embeddings, neg_tail))]

\* The four tensors lookup returns.
LookupOutputs == {"pos_h_e", "pos_t_e", "neg_h_e", "neg_t_e"}

\* ------------------------------------------------ history
\* The place of label l in the ranking of an edge's labels by predicted
\* score, best first.
RankOf(score, l) ==
  1 + Cardinality({m \in DOMAIN score :
                     score[m] > score[l] \/ (score[m] = score[l] /\ m < l)})

TrueLabels(edge) == {l \in DOMAIN edge.pos_r : edge.pos_r[l] = 1}

\* The true labels of a batch ranked within the top k, and its true labels.
RankedInTopK(batch, k) ==
  SumSeq([e \in 1..Len(batch) |->
            Cardinality({l \in TrueLabels(batch[e]) :
                           RankOf(batch[e].score, l) <= k})])

LabelCount(batch) ==
  SumSeq([e \in 1..Len(batch) |-> Cardinality(TrueLabels(batch[e]))])

\* ------------------------------------------------ cell 19
NoRun == [fetches |-> {}, feed |-> {}]
NoTensors == [op |-> "none"]

\* The state before cell 19 runs.
Idle ==
  /\ pc = "Idle"
  /\ total_batch = 0
  /\ test_total_batch = 0
  /\ epoch = 0
  /\ i = 0
  /\ cur_loss = 0
  /\ sum_loss = 0
  /\ cur_hits = <<>>
  /\ cur_sum = 0
  /\ hits_ = <<>>
  /\ all_count = 0
  /\ r = <<>>
  /\ session = [v \in TrainableVars |-> 0]
  /\ last_run = NoRun
  /\ warm_steps = 0
  /\ joint_steps = 0
  /\ warm_epochs_done = 0
  /\ joint_epochs_done = 0
  /\ evaluated = <<>>
  /\ ranked = <<>>
  /\ labelled = 0

Init ==
  /\ warm_up_epochs \in 0..MaxWarmUp
  /\ epochs \in 0..MaxEpochs
  /\ display_step \in 1..MaxDisplayStep
  /\ batch_size \in BatchSizes
  /\ eval_batch_size \in BatchSizes
  /\ num_examples \in 0..MaxExamples
  /\ test_num_examples \in 0..MaxTestExamples
  /\ tag_total \in TagTotals
  /\ entity_total \in EntityTotals
  /\ test_edges \in SmallTestSets(tag_total)
  /\ Idle
  /\ given = NoTensors
  /\ computed = NoTensors

\* Cell 17 builds one top_k per k of hits_k.
GraphBuilds == \A j \in 1..Len(hits_k) : TopKBuilds(hits_k[j], tag_total)

\* Cells 4-17 build the graph, then sess.run(init) and the batch counts.
Start ==
  /\ pc = "Idle"
  /\ IF GraphBuilds
     THEN /\ pc' = "WarmUp"
          /\ total_batch' = num_examples \div batch_size
          /\ test_total_batch' = test_num_examples \div eval_batch_size
     ELSE /\ pc' = "Error"
          /\ UNCHANGED <<total_batch, test_total_batch>>
  /\ UNCHANGED <<cfgVars, numVars, epoch, i, lossVars, evalVars, session,
                 last_run, histVars>>

\* range(warm_up_epochs), range(epochs): the loop takes another turn
WarmUpContinues == epoch < warm_up_epochs

JointContinuesShort == epoch < epochs - 1

JointContinues == epoch < epochs

\* epoch % display_step == 0
EvaluatesAfterShifted(e) == (e + 1) % display_step = 0

EvaluatesAfter(e) == e % display_step = 0

\* for epoch in range(warm_up_epochs)
WarmUpEpoch ==
  /\ pc = "WarmUp"
  /\ IF WarmUpContinues
     THEN /\ pc' = "WarmUpBatch"
          /\ sum_loss' = 0
          /\ i' = 0
          /\ epoch' = epoch
     ELSE /\ pc' = "JointTrain"
          /\ epoch' = 0
          /\ UNCHANGED <<sum_loss, i>>
  /\ UNCHANGED <<cfgVars, numVars, total_batch, test_total_batch, cur_loss,
                 evalVars, session, last_run, histVars>>

\* One warm-up batch: lines 561-564.
WarmUpStep ==
  /\ pc = "WarmUpBatch"
  /\ i < total_batch
  /\ LET fetches == {"relation_optimizer", "relation_pos_r_loss"}
         feed == {"pos_r", "pos_br"}
     IN /\ last_run' = [fetches |-> fetches, feed |-> feed]
        /\ IF RunOk(fetches, feed)
           THEN /\ session' = AfterRun(fetches)
                /\ cur_loss' \in Losses
                /\ sum_loss' = sum_loss + cur_loss'
                /\ i' = i + 1
                /\ warm_steps' = warm_steps + 1
                /\ pc' = pc
           ELSE /\ pc' = "Error"
                /\ UNCHANGED <<session, lossVars, i, warm_steps>>
  /\ UNCHANGED <<cfgVars, numVars, total_batch, test_total_batch, epoch,
                 evalVars, joint_steps, warm_epochs_done, joint_epochs_done,
                 evaluated>>

\* The end of a warm-up epoch: line 565.
WarmUpEpochEnd ==
  /\ pc = "WarmUpBatch"
  /\ i = total_batch
  /\ pc' = "WarmUp"
  /\ epoch' = epoch + 1
  /\ warm_epochs_done' = warm_epochs_done + 1
  /\ UNCHANGED <<cfgVars, numVars, total_batch, test_total_batch, i,
                 lossVars, evalVars, session, last_run, warm_steps,
                 joint_steps, joint_epochs_done, evaluated>>

\* for epoch in range(epochs)
JointEpoch ==
  /\ pc = "JointTrain"
  /\ IF JointContinues
     THEN /\ pc' = "JointBatch"
          /\ sum_loss' = 0
          /\ i' = 0
     ELSE /\ pc' = "Done"
          /\ UNCHANGED <<sum_loss, i>>
  /\ UNCHANGED <<cfgVars, numVars, total_batch, test_total_batch, epoch,
                 cur_loss, evalVars, session, last_run, histVars>>

\* One joint batch: lines 570-577.
JointStep ==
  /\ pc = "JointBatch"
  /\ i < total_batch
  /\ LET fetches == {"optimizer", "loss"}
         feed == Placeholders
     IN /\ last_run' = [fetches |-> fetches, feed |-> feed]
        /\ IF RunOk(fetches, feed)
           THEN /\ session' = AfterRun(fetches)
                /\ cur_loss' \in Losses
                /\ sum_loss' = sum_loss + cur_loss'
                /\ i' = i + 1
                /\ joint_steps' = joint_steps + 1
                /\ pc' = pc
           ELSE /\ pc' = "Error"
                /\ UNCHANGED <<session, lossVars, i, joint_steps>>
  /\ UNCHANGED <<cfgVars, numVars, total_batch, test_total_batch, epoch,
                 evalVars, warm_steps, warm_epochs_done, joint_epochs_done,
                 evaluated>>

\* hits_ = [0]*len(hits_k) (line 581)
hits_carried ==
  IF hits_ = <<>> THEN [j \in 1..Len(hits_k) |-> 0] ELSE hits_

zero_hits == [j \in 1..Len(hits_k) |-> 0]

\* The end of a joint epoch: lines 578-582.
JointEpochEnd ==
  /\ pc = "JointBatch"
  /\ i = total_batch
  /\ joint_epochs_done' = joint_epochs_done + 1
  /\ IF EvaluatesAfter(epoch)
     THEN /\ pc' = "Evaluate"
          /\ hits_' = zero_hits
          /\ all_count' = 0
          /\ i' = 0
          /\ evaluated' = Append(evaluated, epoch)
          /\ ranked' = [j \in 1..Len(hits_k) |-> 0]
          /\ labelled' = 0
          /\ epoch' = epoch
     ELSE /\ pc' = "JointTrain"
          /\ epoch' = epoch + 1
          /\ UNCHANGED <<hits_, all_count, i, evaluated, ranked, labelled>>
  /\ UNCHANGED <<cfgVars, numVars, total_batch, test_total_batch, lossVars,
                 cur_hits, cur_sum, r, session, last_run, warm_steps,
                 joint_steps, warm_epochs_done>>

\* One test batch: lines 584-590.
EvalBatch ==
  /\ pc = "Evaluate"
  /\ i < test_total_batch
  /\ LET fetches == {"hits", "relation_sum"}
         feed == {"pos_h", "pos_t", "pos_r"}
     IN /\ last_run' = [fetches |-> fetches, feed |-> feed]
        /\ IF RunOk(fetches, feed)
           THEN /\ session' = AfterRun(fetches)
                /\ \E batch \in TestBatches(eval_batch_size) :
                     /\ cur_hits' = Hits(batch, tag_total)
                     /\ cur_sum' = RelationSum(batch)
                     /\ ranked' = [j \in 1..Len(hits_k) |->
                                     ranked[j] + RankedInTopK(batch, hits_k[j])]
                     /\ labelled' = labelled + LabelCount(batch)
                /\ hits_' = [j \in 1..Len(hits_k) |-> hits_[j] + cur_hits'[j]]
                /\ all_count' = all_count + cur_sum'
                /\ i' = i + 1
                /\ pc' = pc
           ELSE /\ pc' = "Error"
                /\ UNCHANGED <<session, cur_hits, cur_sum, hits_, all_count,
                               ranked, labelled, i>>
  /\ UNCHANGED <<cfgVars, numVars, total_batch, test_total_batch, epoch,
                 lossVars, r, histVars>>

\* The end of an evaluation round: lines 591-593.
EvalReport ==
  /\ pc = "Evaluate"
  /\ i = test_total_batch
  /\ LET q == [j \in 1..Len(hits_k) |->
                 Divide(hits_[j], all_count, test_total_batch > 0)]
     IN IF \E j \in 1..Len(hits_k) : q[j].kind = "ZeroDivisionError"
        THEN /\ pc' = "Error"
             /\ UNCHANGED <<r, epoch>>
        ELSE /\ r' = q
             /\ pc' = "JointTrain"
             /\ epoch' = epoch + 1
  /\ UNCHANGED <<cfgVars, numVars, total_batch, test_total_batch, i,
                 lossVars, cur_hits, cur_sum, hits_, all_count, ranked,
                 labelled, session, last_run, histVars>>

Next ==
  \/ Start
  \/ WarmUpEpoch
  \/ WarmUpStep
  \/ WarmUpEpochEnd
  \/ JointEpoch
  \/ JointStep
  \/ JointEpochEnd
  \/ EvalBatch
  \/ EvalReport

Spec == Init /\ [][Next]_vars

\* Runs over test sets that hold every kind of edge.
MaxEvalExamples == 2
EvalEpochs == {1, 2}

EvalInit ==
  /\ warm_up_epochs = 1
  /\ epochs \in EvalEpochs
  /\ display_step = 1
  /\ batch_size = 1
  /\ eval_batch_size \in BatchSizes
  /\ num_examples = 1
  /\ test_num_examples \in 1..MaxEvalExamples
  /\ tag_total \in TagTotals \ {5}
  /\ entity_total \in EntityTotals
  /\ test_edges = TestEdges(tag_total)
  /\ Idle
  /\ given = NoTensors
  /\ computed = NoTensors

EvalSpec == EvalInit /\ [][Next]_vars

\* ------------------------------------------------ the loss tensors
\* Parameter tensors, embedding / representation vectors, and the rows of
\* label vectors, reconstructions and weights the losses are evaluated on.
ParamTensors == {<<0, 0>>, <<1, 0>>, <<1, -1>>, <<2, 1>>}
RepVectors == {<<1, 0>>, <<1, 1>>}
LabelRows == {<<0, 0>>, <<1, 0>>, <<0, 1>>, <<1, 1>>}
WeightRows == {<<1, 1>>, <<beta, 1>>, <<1, beta>>, <<beta, beta>>}
BatchLengths == {1, 2}

RegularizerInputs ==
  { [op |-> "regularizer", encoder_w |-> a, decoder_w |-> b,
     encoder_b |-> c, decoder_b |-> d] :
      a \in ParamTensors, b \in ParamTensors,
      c \in ParamTensors, d \in ParamTensors }

TranslationInputs ==
  UNION { { [op |-> "translation",
             pos_h_e |-> [b \in 1..n |-> e[b][1]],
             pos_r_rep |-> [b \in 1..n |-> e[b][2]],
             pos_t_e |-> [b \in 1..n |-> e[b][3]],
             neg_h_e |-> [b \in 1..n |-> e[b][4]],
             neg_r_rep |-> [b \in 1..n |-> e[b][5]],
             neg_t_e |-> [b \in 1..n |-> e[b][6]]] :
              e \in [1..n -> [1..6 -> RepVectors]] } : n \in BatchLengths }

ReconstructionInputs ==
  { [op |-> "reconstruction",
     pos_r_dec |-> <<a>>, pos_r |-> <<b>>, pos_br |-> <<c>>,
     neg_r_dec |-> <<d>>, neg_r |-> <<e>>, neg_br |-> <<f>>] :
      a \in LabelRows, b \in LabelRows, c \in WeightRows,
      d \in LabelRows, e \in LabelRows, f \in {<<1, 1>>, <<beta, 1>>} }

\* Embedding rows (units of 1e-7): the zero row, a row whose squared norm is
\* below epsilon, one at epsilon and two above it; tables of two vertices.
EmbeddingRows == {<<0, 0>>, <<1, 0>>, <<6, 8>>, <<-12, 5>>, <<30, -40>>}
LookupVertices == {0, 1}

LookupInputs ==
  { [op |-> "lookup",
     int_embeddings |-> [v \in LookupVertices |-> IF v = 0 THEN a ELSE b],
     adv_embeddings |-> [v \in LookupVertices |-> IF v = 0 THEN c ELSE a],
     pos_h |-> <<ids[1]>>, pos_t |-> <<ids[2]>>,
     neg_h |-> <<ids[3]>>, neg_t |-> <<ids[4]>>] :
      a \in EmbeddingRows, b \in EmbeddingRows, c \in EmbeddingRows,
      ids \in [1..4 -> LookupVertices] }

NumInit ==
  /\ warm_up_epochs = 0
  /\ epochs = 0
  /\ display_step = 1
  /\ batch_size = 1
  /\ eval_batch_size = 1
  /\ num_examples = 0
  /\ test_num_examples = 0
  /\ tag_total = 10
  /\ entity_total \in EntityTotals
  /\ test_edges = {}
  /\ Idle
  /\ given \in RegularizerInputs \cup TranslationInputs
               \cup ReconstructionInputs \cup LookupInputs
  /\ computed = NoTensors

runVars == <<cfgVars, pc, total_batch, test_total_batch, epoch, i, lossVars,
             evalVars, session, last_run, histVars>>

ComputeRegularizer ==
  /\ given.op = "regularizer"
  /\ computed = NoTensors
  /\ computed' =
       [op |-> "regularizer",
        relation_ae_l2_loss |->
          relation_ae_l2_loss(given.encoder_w, given.decoder_w,
                              given.encoder_b, given.decoder_b)]
  /\ UNCHANGED <<runVars, given>>

ComputeTransLoss ==
  /\ given.op = "translation"
  /\ computed = NoTensors
  /\ LET pos == Distance(given.pos_h_e, given.pos_r_rep, given.pos_t_e)
         neg == Distance(given.neg_h_e, given.neg_r_rep, given.neg_t_e)
     IN computed' = [op |-> "translation", pos |-> pos, neg |-> neg,
                     trans_loss |-> trans_loss(pos, neg)]
  /\ UNCHANGED <<runVars, given>>

ComputeRelationLoss ==
  /\ given.op = "reconstruction"
  /\ computed = NoTensors
  /\ computed' =
       [op |-> "reconstruction",
        pos_r_ae |-> AeLoss(given.pos_r_dec, given.pos_r, given.pos_br),
        relation_loss |->
          relation_loss(given.pos_r_dec, given.pos_r, given.pos_br,
                        given.neg_r_dec, given.neg_r, given.neg_br)]
  /\ UNCHANGED <<runVars, given>>

\* sess.run of the tensors lookup returns: the normalized rows, and the
\* tables as the run leaves them.
ComputeLookup ==
  /\ given.op = "lookup"
  /\ computed = NoTensors
  /\ LET e == lookup(given.pos_h, given.pos_t, given.neg_h, given.neg_t,
                     [int_embeddings |-> given.int_embeddings,
                      adv_embeddings |-> given.adv_embeddings])
     IN computed' =
          [op |-> "lookup",
           pos_h_e |-> e.pos_h_e, pos_t_e |-> e.pos_t_e,
           neg_h_e |-> e.neg_h_e, neg_t_e |-> e.neg_t_e,
           assigned |-> Assigned(LookupOutputs)]
  /\ UNCHANGED <<runVars, given>>

NumNext ==
  \/ ComputeRegularizer
  \/ ComputeTransLoss
  \/ ComputeRelationLoss
  \/ ComputeLookup

NumSpec == NumInit /\ [][NumNext]_vars

\* ================================================================ claims
\* The phase of the run the loop is in.
Phase ==
  CASE pc = "Idle" -> "Idle"
    [] pc \in {"WarmUp", "WarmUpBatch"} -> "WarmUp"
    [] pc \in {"JointTrain", "JointBatch", "Evaluate"} -> "JointTrain"
    [] pc = "Done" -> "Done"
    [] OTHER -> "Error"

PhaseRank(ph) ==
  CASE ph = "Idle" -> 0
    [] ph = "WarmUp" -> 1
    [] ph = "JointTrain" -> 2
    [] OTHER -> 3

\* C1: the run goes through Idle, WarmUp, JointTrain, Done in this order:
\* the phase never goes back and never skips WarmUp or JointTrain; a joint
\* step or an evaluation round happens only after all warm_up_epochs warm-up
\* epochs are complete; a warm-up step is taken only while no joint step and
\* no evaluation round has happened; Done is entered only with all `epochs`
\* joint epochs complete.
C1_PhaseOrder ==
  /\ [][/\ PhaseRank(Phase') >= PhaseRank(Phase)
        /\ Phase' = "Done" => Phase \in {"JointTrain", "Done"}
        /\ Phase' = "JointTrain" => Phase \in {"WarmUp", "JointTrain"}
        /\ Phase' = "WarmUp" => Phase \in {"Idle", "WarmUp"}
        /\ warm_steps' # warm_steps =>
             joint_steps = 0 /\ joint_epochs_done = 0 /\ evaluated = <<>>
        /\ (joint_steps' # joint_steps \/ evaluated' # evaluated) =>
             warm_epochs_done = warm_up_epochs /\ Phase = "JointTrain"]_vars
  /\ [](pc = "Done" => joint_epochs_done = epochs)

C1_Witness ==
  /\ pc = "Done"
  /\ warm_steps > 0
  /\ joint_steps > 0
  /\ Len(evaluated) > 1

\* C2: whatever the configuration, a run that has ended has ended in Done,
\* after exactly warm_up_epochs warm-up epochs and `epochs` joint epochs of
\* total_batch optimizer steps each.  (Stated for the data sets the graph
\* builds for.)
C2_RunEndsInDone ==
  (GraphBuilds /\ pc \in {"Done", "Error"}) =>
    /\ pc = "Done"
    /\ warm_epochs_done = warm_up_epochs
    /\ joint_epochs_done = epochs
    /\ warm_steps = warm_up_epochs * total_batch
    /\ joint_steps = epochs * total_batch

\* The part of C2 that holds: a run that reaches Done has run exactly its
\* epochs and steps, whatever losses and hit counts it saw.
C2_DoneAfterAllEpochs ==
  pc = "Done" =>
    /\ warm_epochs_done = warm_up_epochs
    /\ joint_epochs_done = epochs
    /\ warm_steps = warm_up_epochs * total_batch
    /\ joint_steps = epochs * total_batch

Range(seq) == {seq[n] : n \in 1..Len(seq)}

\* C3: an evaluation round follows joint epoch e exactly when
\* e mod display_step = 0: the first round follows epoch 0, consecutive
\* rounds are display_step epochs apart, and a run that reaches Done has had
\* ceil(epochs / display_step) rounds.
C3_EvaluationSchedule ==
  /\ \A e \in 0..(joint_epochs_done - 1) :
       (e \in Range(evaluated)) <=> (e % display_step = 0)
  /\ Range(evaluated) \subseteq 0..(joint_epochs_done - 1)
  /\ evaluated # <<>> => evaluated[1] = 0
  /\ \A n \in 1..(Len(evaluated) - 1) :
       evaluated[n + 1] - evaluated[n] = display_step
  /\ pc = "Done" =>
       Len(evaluated) = (epochs + display_step - 1) \div display_step

C3_Witness ==
  /\ pc = "Done"
  /\ display_step = 2
  /\ evaluated = <<0, 2>>

WarmUpFetches == {"relation_optimizer", "relation_pos_r_loss"}

\* C4: a warm-up step is fed the positive label vector and its weight vector
\* and nothing else, and that is all its loss is computed from; it changes
\* none but the four autoencoder parameters and leaves both embedding tables
\* as they are, so the tables hold their initial values until the first joint
\* step.
C4_WarmUpFrame ==
  /\ [][warm_steps' # warm_steps =>
          /\ \A v \in EmbeddingTables : session'[v] = session[v]
          /\ {v \in TrainableVars : session'[v] # session[v]}
               \subseteq AutoencoderParams]_vars
  /\ [](last_run.fetches = WarmUpFetches =>
          /\ last_run.feed = {"pos_r", "pos_br"}
          /\ Needed(last_run.fetches) \subseteq last_run.feed
          /\ pc # "Error")
  /\ [](joint_steps = 0 => \A v \in EmbeddingTables : session[v] = 0)

C4_Witness ==
  /\ pc = "JointBatch"
  /\ warm_steps > 0
  /\ joint_steps = 0
  /\ \A v \in AutoencoderParams : session[v] = warm_steps
  /\ \A v \in EmbeddingTables : session[v] = 0

\* A reported round: r holds three values.
Reported == r # <<>> /\ \A j \in 1..Len(r) : r[j].kind = "value"

\* C5: the hit counts of every evaluation batch are non-decreasing in k, so
\* are the counts accumulated over a round, and every round that reports
\* values reports Hits@1 <= Hits@5 <= Hits@10.
C5_HitsMonotoneInK ==
  /\ \A j \in 1..(Len(cur_hits) - 1) : cur_hits[j] <= cur_hits[j + 1]
  /\ \A j \in 1..(Len(hits_) - 1) : hits_[j] <= hits_[j + 1]
  /\ Reported =>
       \A j \in 1..(Len(r) - 1) :
         r[j].num * r[j + 1].den <= r[j + 1].num * r[j].den

C5_Witness ==
  /\ Reported
  /\ cur_hits[1] < cur_hits[2]
  /\ cur_hits[2] < cur_hits[3]
  /\ r[1].num * r[2].den < r[2].num * r[1].den
  /\ r[2].num * r[3].den < r[3].num * r[2].den

\* C6: the Hits@k a round reports is the number of true labels ranked in the
\* top k, summed over the test batches of the round, divided by the number of
\* true labels summed over the same batches; the accumulated hit count never
\* exceeds the accumulated label count, and a reported value lies in [0, 1].
C6_HitsIsFractionOfTrueLabels ==
  /\ pc = "Evaluate" =>
       /\ all_count = labelled
       /\ \A j \in 1..Len(hits_k) : hits_[j] = ranked[j] /\ hits_[j] <= all_count
  /\ (Reported /\ pc # "Evaluate") =>
       \A j \in 1..Len(hits_k) :
         /\ r[j].num = ranked[j]
         /\ r[j].den = labelled
         /\ 0 <= r[j].num
         /\ r[j].num <= r[j].den

C6_Witness ==
  /\ Reported
  /\ pc # "Evaluate"
  /\ i = 2
  /\ r[1].num > 0
  /\ r[1].num < r[3].num
  /\ r[3].num < r[3].den

ToyScenario ==
  /\ warm_up_epochs = 1
  /\ epochs = 1
  /\ entity_total = 10
  /\ tag_total = 5
  /\ batch_size = 2

\* C7: the run of 1 warm-up epoch and 1 joint epoch on 10 vertices, 5 labels
\* and batch size 2 does not fail, and ends in Done having reported
\* Hits@1 <= Hits@5 <= Hits@10.
C7_ToyRunCompletes ==
  ToyScenario =>
    /\ pc # "Error"
    /\ pc = "Done" =>
         /\ Reported
         /\ \A j \in 1..(Len(r) - 1) :
              r[j].num * r[j + 1].den <= r[j + 1].num * r[j].den

SumSquares(t) == SumSeq([n \in 1..Len(t) |-> t[n] * t[n]])

\* C8: the regularizer is the sum of the squares of all entries of the four
\* autoencoder parameter tensors, with no other factor.
C8_RegularizerIsSumOfSquares ==
  computed.op = "regularizer" =>
    computed.relation_ae_l2_loss[1] =
      computed.relation_ae_l2_loss[2] *
        (SumSquares(given.encoder_w) + SumSquares(given.decoder_w)
           + SumSquares(given.encoder_b) + SumSquares(given.decoder_b))

\* What the regularizer is: half that sum.
C8_RegularizerIsHalfSumOfSquares ==
  computed.op = "regularizer" =>
    2 * computed.relation_ae_l2_loss[1] =
      computed.relation_ae_l2_loss[2] *
        (SumSquares(given.encoder_w) + SumSquares(given.decoder_w)
           + SumSquares(given.encoder_b) + SumSquares(given.decoder_b))

\* The L1 distance of u + l from v'.
L1(u, l, v) ==
  SumSeq([j \in 1..Len(u) |->
            IF u[j] + l[j] >= v[j] THEN u[j] + l[j] - v[j]
            ELSE v[j] - (u[j] + l[j])])

\* C9: with d the L1 distance of u + l from v' and margin gamma = 1, the
\* translation loss is the sum over the batch of max(0, gamma + d(pos) -
\* d(neg)): it is never negative, an entry adds 0 exactly when d(neg) >=
\* d(pos) + gamma and gamma + d(pos) - d(neg) otherwise, and the loss is 0
\* exactly when every entry has d(neg) >= d(pos) + gamma.
C9_TransLossIsHinge ==
  computed.op = "translation" =>
    LET n == Len(given.pos_h_e)
        dpos(b) == L1(given.pos_h_e[b], given.pos_r_rep[b], given.pos_t_e[b])
        dneg(b) == L1(given.neg_h_e[b], given.neg_r_rep[b], given.neg_t_e[b])
        adds(b) == IF dneg(b) >= dpos(b) + 1 THEN 0
                   ELSE 1 + dpos(b) - dneg(b)
    IN /\ \A b \in 1..n : computed.pos[b] = dpos(b) /\ computed.neg[b] = dneg(b)
       /\ computed.trans_loss >= 0
       /\ computed.trans_loss = SumSeq([b \in 1..n |-> adds(b)])
       /\ \A b \in 1..n : adds(b) = 0 <=> dneg(b) >= dpos(b) + gamma
       /\ computed.trans_loss = 0 <=> \A b \in 1..n : dneg(b) >= dpos(b) + gamma

C9_Witness ==
  /\ computed.op = "translation"
  /\ Len(computed.pos) = 2
  /\ computed.neg[1] = computed.pos[1] + gamma
  /\ computed.neg[2] < computed.pos[2]
  /\ computed.trans_loss = 1 + computed.pos[2] - computed.neg[2]

\* C10: the weighted reconstruction loss is never negative, and it is zero
\* when the reconstruction equals the label vector, whatever the weights.
C10_ReconstructionLossZeroWhenExact ==
  computed.op = "reconstruction" =>
    /\ computed.pos_r_ae >= 0
    /\ computed.relation_loss >= 0
    /\ given.pos_r_dec = given.pos_r => computed.pos_r_ae = 0
    /\ (given.pos_r_dec = given.pos_r /\ given.neg_r_dec = given.neg_r) =>
         computed.relation_loss = 0

C10_Witness ==
  /\ computed.op = "reconstruction"
  /\ given.pos_r_dec = given.pos_r
  /\ given.neg_r_dec = given.neg_r
  /\ given.pos_r = << <<1, 1>> >>
  /\ given.pos_br = << <<beta, beta>> >>
  /\ given.neg_r = << <<1, 0>> >>
  /\ given.neg_br = << <<beta, 1>> >>
  /\ computed.relation_loss = 0

\* The squared norm of a normalized row is square_sum(x) / square_sum:
\* the row has unit norm when the two are equal.
UnitNorm(row) == square_sum(row.x) = row.square_sum

\* The normalized rows a lookup returned.
LookedUp ==
  {computed[n][b] : n \in LookupOutputs, b \in 1..Len(given.pos_h)}

\* The distance and prediction tensors read head and tail embeddings only
\* through the tensors lookup returns, which assign no table.
ReadThroughLookup ==
  /\ \A n \in {"pos", "neg", "pos_r_minus"} :
       /\ Inputs(n) \cap EmbeddingTables = {}
       /\ \A m \in Inputs(n) :
            Deps(m) \cap EmbeddingTables # {} => m \in LookupOutputs
  /\ computed.assigned = {}

\* C11: every head or tail embedding that enters the translation distance or
\* the evaluation prediction was L2-normalized at lookup and has unit norm,
\* for every vertex and every value stored in the tables, and the tables are
\* not written.
C11_LookupGivesUnitNorm ==
  computed.op = "lookup" =>
    /\ ReadThroughLookup
    /\ \A row \in LookedUp : UnitNorm(row)

\* C11 as amended: the row is divided by the root of max(squared norm,
\* epsilon), so it has unit norm exactly when its squared norm is at least
\* epsilon, and norm less than one (zero for the zero row) otherwise.
C11_UnitNormAboveEpsilon ==
  computed.op = "lookup" =>
    /\ ReadThroughLookup
    /\ \A n \in LookupOutputs : \A b \in 1..Len(computed[n]) :
         LET table == IF n \in {"pos_h_e", "neg_h_e"}
                      THEN given.int_embeddings ELSE given.adv_embeddings
             ids == CASE n = "pos_h_e" -> given.pos_h
                      [] n = "pos_t_e" -> given.pos_t
                      [] n = "neg_h_e" -> given.neg_h
                      [] OTHER -> given.neg_t
             row == computed[n][b]
         IN /\ row.x = table[ids[b]]
            /\ square_sum(row.x) >= epsilon <=> UnitNorm(row)
            /\ square_sum(row.x) < epsilon =>
                 /\ row.square_sum = epsilon
                 /\ square_sum(row.x) < row.square_sum

\* A lookup that returned a row above epsilon, one at epsilon and one below.
C11_Witness ==
  /\ computed.op = "lookup"
  /\ \E row \in LookedUp : square_sum(row.x) > epsilon /\ UnitNorm(row)
  /\ \E row \in LookedUp : square_sum(row.x) = epsilon /\ UnitNorm(row)
  /\ \E row \in LookedUp : square_sum(row.x) < epsilon /\ ~UnitNorm(row)

\* The loop over the batches of a training epoch has run to its end.
EpochLoopOver == pc \in {"WarmUpBatch", "JointBatch"} /\ i = total_batch

\* C12: the total_batch batches of batch_size examples requested in one
\* warm-up or joint epoch account for all num_examples training examples,
\* for every num_examples >= 1 and batch_size >= 1.
C12_EpochCoversTrainingSet ==
  (EpochLoopOver /\ num_examples >= 1 /\ batch_size >= 1) =>
    i * batch_size = num_examples

\* What the code guarantees of an epoch: it requests whole batches only, and
\* leaves out fewer than batch_size examples.
C12_EpochLeavesOutLessThanABatch ==
  EpochLoopOver =>
    /\ i * batch_size <= num_examples
    /\ num_examples - i * batch_size < batch_size

\* An evaluation round ends: line 591 is run.
RoundEnds == pc = "Evaluate" /\ pc' # "Evaluate"

\* C13: the division of line 591 is unguarded.  A round whose true-label
\* count is zero (no test batch at all, or no positive label in any batch)
\* divides by zero: the run ends in an error (no batch: Python numbers) or
\* the round yields nan for every k (numpy scalars) instead of a Hits@k
\* value; a round whose count is positive always reports a value for every k.
C13_UnguardedDivision ==
  [][RoundEnds =>
       /\ labelled = 0 =>
            \/ pc' = "Error" /\ test_total_batch = 0 /\ r' = r
            \/ /\ pc' = "JointTrain"
               /\ test_total_batch > 0
               /\ \A j \in 1..Len(hits_k) : r'[j].kind = "nan"
       /\ labelled > 0 =>
            /\ pc' = "JointTrain"
            /\ \A j \in 1..Len(hits_k) :
                 /\ r'[j].kind = "value"
                 /\ r'[j].num = ranked[j]
                 /\ r'[j].den = labelled]_vars

\* A round over test batches without a positive label printed nan.
C13_Witness ==
  /\ pc = "JointTrain"
  /\ evaluated # <<>>
  /\ test_total_batch > 0
  /\ labelled = 0
  /\ \A j \in 1..Len(hits_k) : r[j].kind = "nan"

\* A round over no test batch ended the run, and a round with positive
\* labels reported values.
C13_ErrorReached ==
  /\ pc = "Error"
  /\ evaluated # <<>>
  /\ test_total_batch = 0
  /\ labelled = 0

C13_ValueReached ==
  /\ pc = "JointTrain"
  /\ evaluated # <<>>
  /\ labelled > 0
  /\ Reported

\* The training batches requested so far: the position of the training
\* batch stream (lines 561 and 571 are its only readers).
TrainStreamPosition == (warm_steps + joint_steps) * batch_size

\* The parameters after w warm-up and j joint steps of a run that never
\* evaluates: each step updates what its optimizer updates.
NoEvaluationSession(w, j) ==
  [v \in TrainableVars |->
     (IF v \in UpdatedBy("relation_optimizer") THEN w ELSE 0)
     + (IF v \in UpdatedBy("optimizer") THEN j ELSE 0)]

\* The run is over: no statement of cell 19 is left to run.
RunOver == pc \in {"Done", "Error"} /\ GraphBuilds

\* C14: an evaluation round is read-only and never interleaves with
\* training.  During a round the total_batch steps of every epoch so far are
\* complete and none of the next has run, the parameters are at every moment
\* those of a run without evaluation after the same steps, and the run takes
\* the same training steps as a run with no evaluation at all:
\* warm_up_epochs and epochs epochs of total_batch steps each.
C14_EvaluationLeavesTrainingAlone ==
  /\ session = NoEvaluationSession(warm_steps, joint_steps)
  /\ pc = "Evaluate" =>
       /\ warm_steps = warm_epochs_done * total_batch
       /\ joint_steps = joint_epochs_done * total_batch
       /\ TrainStreamPosition =
            (warm_epochs_done + joint_epochs_done) * total_batch * batch_size
  /\ RunOver =>
       /\ warm_steps = warm_up_epochs * total_batch
       /\ joint_steps = epochs * total_batch
       /\ session = NoEvaluationSession(warm_up_epochs * total_batch,
                                        epochs * total_batch)

\* The part of C14 that holds, step by step: a step of an evaluation round
\* changes no parameter, requests no training batch and runs no optimizer,
\* and the round is entered only with the steps of its epoch complete.
C14_EvaluationFrame ==
  /\ [][pc = "Evaluate" =>
          /\ session' = session
          /\ TrainStreamPosition' = TrainStreamPosition
          /\ pc' \in {"Evaluate", "JointTrain", "Error"}
          /\ last_run'.fetches \cap Optimizers # {} => last_run' = last_run]_vars
  /\ [](pc = "Evaluate" => joint_steps = joint_epochs_done * total_batch)
  /\ [](session = NoEvaluationSession(warm_steps, joint_steps))

\* A training step of the epoch in progress is taken.
TrainingStep == pc \in {"WarmUpBatch", "JointBatch"} /\ i' = i + 1

\* The largest loss a batch returns.
MaxLoss == CHOOSE l \in Losses : \A m \in Losses : m <= l

\* C15: the hit counts and the label count start from zero in every
\* evaluation round and hold the counts of the round's own test batches; the
\* loss sum starts from zero in every epoch and each step adds its batch loss
\* to it, so the sum printed is that of the epoch's own total_batch losses.
C15_AccumulatorsResetPerUnit ==
  /\ [](pc = "Evaluate" =>
          /\ i = 0 => all_count = 0 /\ \A j \in 1..Len(hits_k) : hits_[j] = 0
          /\ all_count = labelled
          /\ \A j \in 1..Len(hits_k) : hits_[j] = ranked[j]
          /\ all_count <= i * eval_batch_size * tag_total)
  /\ [](pc \in {"WarmUpBatch", "JointBatch"} =>
          /\ i = 0 => sum_loss = 0
          /\ sum_loss <= i * MaxLoss)
  /\ [][TrainingStep => sum_loss' = sum_loss + cur_loss']_vars
  /\ [][RoundEnds /\ pc' # "Error" =>
          \A j \in 1..Len(hits_k) :
            r'[j].num = ranked[j] /\ r'[j].den = labelled]_vars

\* The second evaluation round of a run, after its last test batch: the
\* counts are those of this round's batches and the loss sum that of the
\* last epoch's batches, not of two rounds or epochs.
C15_Witness ==
  /\ pc = "Evaluate"
  /\ Len(evaluated) = 2
  /\ i = test_total_batch
  /\ i >= 1
  /\ all_count = 3 * i * eval_batch_size
  /\ hits_[3] = all_count
  /\ total_batch >= 1
  /\ sum_loss = total_batch * MaxLoss

====
